---- MODULE Spec2Model ----
(***************************************************************************)
(* A model of workflow_api.py: the output addressing rule                  *)
(* (get_value_at_index), the parent-directory lookup (find_path), the      *)
(* module-search-path bootstrap, and the straight-line pipeline of main(). *)
(***************************************************************************)
EXTENDS Integers, Sequences, FiniteSets, TLC

VARIABLES
    gv_obj,      \* get_value_at_index: the argument obj
    gv_index,    \* get_value_at_index: the argument index
    gv_result,   \* get_value_at_index: what the call produced (value or raised error)
    gv_pc,       \* "call" before the call, "done" after it
    cwd,         \* os.getcwd(): the working directory, a path
    fs,          \* the directories from cwd up to the root, each with its listing
    sys_path,    \* sys.path: the entries appended to it, in order
    calls,       \* calls of add_comfyui_directory_to_sys_path made so far
    fp_name,     \* find_path: the argument name
    fp_path,     \* find_path: the argument path of the innermost call
    fp_result,   \* find_path: what the outermost call returned
    fp_pc,       \* "idle", "running" while a frame is active, "done" after the return
    pc,          \* the statement of the program to execute next (0: no run)
    q,           \* the loop variable of main's for statement
    status,      \* of the run: "idle", "running", "done" or "failed"
    error,       \* the exception that ended a failed run
    extra_config,\* the path handed to load_extra_path_config, if any
    registry,    \* the names bound in NODE_CLASS_MAPPINGS
    cache,       \* main's local variables: node variable -> stored output
    log,         \* the statements executed, in order (node operations invoked included)
    saved        \* the image collections SaveImage.save_images has written

gv_vars == <<gv_obj, gv_index, gv_result, gv_pc>>
fs_vars == <<cwd, fs>>
fp_vars == <<fp_name, fp_path, fp_result, fp_pc>>

path_vars == <<sys_path, calls>>

run_vars == <<pc, q, status, error, extra_config, registry, cache, log, saved>>

vars == <<gv_obj, gv_index, gv_result, gv_pc, cwd, fs, sys_path, calls,
          fp_name, fp_path, fp_result, fp_pc,
          pc, q, status, error, extra_config, registry, cache, log, saved>>

(***************************************************************************)
(* Bounds of the model.                                                    *)
(***************************************************************************)
MaxLen == 2      \* longest sequence among the modelled output collections
MaxKeys == 2     \* most keys of a modelled mapping
MaxIndex == 2    \* largest index passed to get_value_at_index
MaxDepth == 2    \* deepest working directory below the root
MaxCalls == 2    \* most calls of add_comfyui_directory_to_sys_path in one process
MaxEnvelopes == 1 \* most nodes of one run that return a {"ui", "result"} envelope

(***************************************************************************)
(* Python values.  An opaque value (a model, a tensor, an image) is a      *)
(* scalar; a list or tuple is a seq; a dict is a map, kept as its pairs in *)
(* insertion order, with distinct keys.  A key is an int or a str.         *)
(***************************************************************************)
Scalar(a) == [kind |-> "scalar", atom |-> a]
PySeq(items) == [kind |-> "seq", items |-> items]
PyMap(pairs) == [kind |-> "map", pairs |-> pairs]
PyNone == [kind |-> "none"]

IntKey(i) == [t |-> "int", i |-> i, s |-> ""]
StrKey(s) == [t |-> "str", i |-> 0, s |-> s]

\* The outcome of evaluating an expression: a value, or the exception raised.
Ok(v) == [status |-> "ok", value |-> v]
Raise(e) == [status |-> e, value |-> PyNone]

\* Python's LookupError and its subclasses.
LookupErrors == {"KeyError", "IndexError"}

HasKey(pairs, k) == \E j \in 1..Len(pairs) : pairs[j].key = k
ValueOf(pairs, k) == pairs[CHOOSE j \in 1..Len(pairs) : pairs[j].key = k].val

\* obj[key]: list.__getitem__ (negative indices count from the end) and
\* dict.__getitem__.
PyGetItem(obj, key) ==
    CASE obj.kind = "seq" ->
            IF key.t # "int" THEN Raise("TypeError")
            ELSE IF 0 <= key.i /\ key.i < Len(obj.items)
                 THEN Ok(obj.items[key.i + 1])
            ELSE IF key.i < 0 /\ -Len(obj.items) <= key.i
                 THEN Ok(obj.items[Len(obj.items) + key.i + 1])
            ELSE Raise("IndexError")
      [] obj.kind = "map" ->
            IF HasKey(obj.pairs, key) THEN Ok(ValueOf(obj.pairs, key))
            ELSE Raise("KeyError")
      [] OTHER -> Raise("TypeError")

\* A plausible slip: the "result" envelope is looked at first.
get_value_at_index_fallback_first(obj, index) ==
    LET inner == PyGetItem(obj, StrKey("result")) IN
    IF inner.status = "ok" THEN PyGetItem(inner.value, IntKey(index))
    ELSE PyGetItem(obj, IntKey(index))

\* A plausible slip: every lookup failure is caught and None is returned.
get_value_at_index_default(obj, index) ==
    LET direct == PyGetItem(obj, IntKey(index)) IN
    IF direct.status = "ok" THEN direct
    ELSE LET inner == PyGetItem(obj, StrKey("result")) IN
         IF inner.status # "ok" THEN Ok(PyNone)
         ELSE LET second == PyGetItem(inner.value, IntKey(index)) IN
              IF second.status = "ok" THEN second ELSE Ok(PyNone)

\* try: return obj[index]   except KeyError: return obj["result"][index]
get_value_at_index(obj, index) ==
    LET direct == PyGetItem(obj, IntKey(index)) IN
    IF direct.status # "KeyError" THEN direct
    ELSE LET inner == PyGetItem(obj, StrKey("result")) IN
         IF inner.status # "ok" THEN inner
         ELSE PyGetItem(inner.value, IntKey(index))

(***************************************************************************)
(* The output collections get_value_at_index is applied to: sequences of   *)
(* opaque values, and mappings whose "result" entry, when present, is      *)
(* itself a collection.                                                    *)
(***************************************************************************)
Atoms == {"a", "b"}
Scalars == {Scalar(a) : a \in Atoms}
Indices == (-1)..MaxIndex

SeqsUpTo(S, n) == UNION {[1..m -> S] : m \in 0..n}

IntKeys == {IntKey(i) : i \in 0..1}
OuterKeys == IntKeys \cup {StrKey("result"), StrKey("x")}

DistinctKeys(pairs) ==
    \A j, k \in 1..Len(pairs) : j # k => pairs[j].key # pairs[k].key

PlainSeqs == {PySeq(s) : s \in SeqsUpTo(Scalars, MaxLen)}
InnerMaps ==
    {PyMap(p) : p \in {ps \in SeqsUpTo([key : IntKeys, val : Scalars], MaxKeys) :
                          DistinctKeys(ps)}}
InnerCollections == PlainSeqs \cup InnerMaps

OuterPairs ==
    [key : OuterKeys \ {StrKey("result")}, val : Scalars]
        \cup [key : {StrKey("result")}, val : InnerCollections]
OuterMaps ==
    {PyMap(p) : p \in {ps \in SeqsUpTo(OuterPairs, MaxKeys) : DistinctKeys(ps)}}

OutputCollections == PlainSeqs \cup OuterMaps

(***************************************************************************)
(* The filesystem.  A path is the sequence of its components, the root     *)
(* being the empty sequence.  fs gives, for every directory from the       *)
(* working directory up to the root, its listing: the kind of the entry    *)
(* each name has there.  These are the only directories find_path reads.   *)
(***************************************************************************)
Names == {"ComfyUI", "extra_model_paths.yaml", "work"}
DirNames == {"ComfyUI", "work"}
Kinds == {"absent", "file", "dir"}

\* The kinds an entry of each name takes in the modelled trees.
KindsOf(n) ==
    CASE n = "ComfyUI" -> {"absent", "file", "dir"}
      [] n = "extra_model_paths.yaml" -> {"absent", "file"}
      [] OTHER -> {"absent"}

Prefixes(p) == {SubSeq(p, 1, k) : k \in 0..Len(p)}

\* os.path.dirname of an absolute path; the root is its own parent.
dirname(path) ==
    IF path = <<>> THEN <<>> ELSE SubSeq(path, 1, Len(path) - 1)

\* os.path.join(path, name)
join(path, name) == Append(path, name)

\* os.listdir(path)
listdir(path) == {n \in Names : fs[path][n] # "absent"}

\* os.path.isdir of an entry of a listed directory
isdir(p) == p # <<>> /\ fs[dirname(p)][p[Len(p)]] = "dir"

\* find_path's return value: a path, or None.
NoPath == [found |-> FALSE, path |-> <<>>]
SomePath(p) == [found |-> TRUE, path |-> p]

\* Every component of the working directory is a directory of its parent.
WellFormed(c, f) ==
    \A p \in Prefixes(c) \ {<<>>} : f[dirname(p)][p[Len(p)]] = "dir"

Listings ==
    {l \in [Names -> Kinds] :
        \A n \in Names : l[n] \in KindsOf(n) \cup {"dir"} /\ (l[n] = "dir" => n \in DirNames)}

FileSystemsAt(c) ==
    {f \in [Prefixes(c) -> Listings] :
        /\ WellFormed(c, f)
        /\ \A p \in Prefixes(c) : \A n \in Names :
              f[p][n] \in KindsOf(n) \/ (join(p, n) \in Prefixes(c))}

WorkingDirs(d) == SeqsUpTo(DirNames, d)

EmptyFileSystem == [p \in {<<>>} |-> [n \in Names |-> "absent"]]

\* A plausible slip: the root test comes before the listing, so the root
\* directory itself is never searched.
find_path_frame_root_unsearched(name, path) ==
    LET parent_directory == dirname(path) IN
    IF parent_directory = path
    THEN [return |-> TRUE, result |-> NoPath, next |-> path]
    ELSE IF name \in listdir(path)
    THEN [return |-> TRUE, result |-> SomePath(join(path, name)), next |-> path]
    ELSE [return |-> FALSE, result |-> NoPath, next |-> parent_directory]

\* One frame of find_path(name, path): return the joined path, return
\* None at the root, or recurse into the parent.
find_path_frame(name, path) ==
    IF name \in listdir(path)
    THEN [return |-> TRUE, result |-> SomePath(join(path, name)), next |-> path]
    ELSE LET parent_directory == dirname(path) IN
         IF parent_directory = path
         THEN [return |-> TRUE, result |-> NoPath, next |-> path]
         ELSE [return |-> FALSE, result |-> NoPath, next |-> parent_directory]

\* find_path(name, path), the whole recursion.
RECURSIVE find_path(_, _)
find_path(name, path) ==
    LET frame == find_path_frame(name, path) IN
    IF frame.return THEN frame.result ELSE find_path(name, frame.next)

\* No call of get_value_at_index, or of find_path, is being followed.
GVIdle ==
    /\ gv_obj = PyNone
    /\ gv_index = 0
    /\ gv_result = PyNone
    /\ gv_pc = "idle"

FPIdle ==
    /\ fp_name = ""
    /\ fp_path = <<>>
    /\ fp_result = NoPath
    /\ fp_pc = "idle"

\* The program is not being run.
RunIdle ==
    /\ pc = 0
    /\ q = 0
    /\ status = "idle"
    /\ error = ""
    /\ extra_config = NoPath
    /\ registry = {}
    /\ cache = <<>>
    /\ log = <<>>
    /\ saved = <<>>

(***************************************************************************)
(* find_path(name) run frame by frame from the working directory.          *)
(***************************************************************************)
InitFP ==
    /\ cwd \in WorkingDirs(MaxDepth)
    /\ fs \in FileSystemsAt(cwd)
    /\ sys_path = <<>>
    /\ calls = 0
    /\ GVIdle
    /\ RunIdle
    /\ fp_name \in {"ComfyUI", "extra_model_paths.yaml"}
    /\ fp_path = cwd
    /\ fp_result = NoPath
    /\ fp_pc = "running"

FindPathReturn ==
    /\ fp_pc = "running"
    /\ find_path_frame(fp_name, fp_path).return
    /\ fp_result' = find_path_frame(fp_name, fp_path).result
    /\ fp_pc' = "done"
    /\ UNCHANGED <<fp_name, fp_path, fs_vars, path_vars, gv_vars, run_vars>>

FindPathRecurse ==
    /\ fp_pc = "running"
    /\ ~find_path_frame(fp_name, fp_path).return
    /\ fp_path' = find_path_frame(fp_name, fp_path).next
    /\ UNCHANGED <<fp_name, fp_result, fp_pc, fs_vars, path_vars, gv_vars, run_vars>>

NextFP == FindPathReturn \/ FindPathRecurse

SpecFP == InitFP /\ [][NextFP]_vars

\* A started call keeps running: the interpreter executes the next frame.
FairSpecFP == SpecFP /\ WF_vars(NextFP)

\* The directories on the chain cwd, parent(cwd), ..., root that hold an
\* entry called name, and the nearest of them.
Holding(name) == {p \in Prefixes(cwd) : fs[p][name] # "absent"}
Nearest(name) ==
    CHOOSE p \in Holding(name) : \A d \in Holding(name) : Len(d) <= Len(p)

\* C10: find_path terminates, and what it returns is the joined path of
\* name in the nearest directory of the chain that holds name, or None when
\* no directory of the chain, the root included, holds it.
C10_FindPathTerminatesAtNearest ==
    /\ <>(fp_pc = "done")
    /\ [](fp_pc = "done" =>
            fp_result = IF Holding(fp_name) = {} THEN NoPath
                        ELSE SomePath(join(Nearest(fp_name), fp_name)))

\* A call from a directory two levels down has returned an entry of the
\* root, after recursing through the parents.
C10_Witness ==
    /\ fp_pc = "done"
    /\ Len(cwd) = MaxDepth
    /\ fp_result.found
    /\ Len(fp_result.path) = 1

(***************************************************************************)
(* add_comfyui_directory_to_sys_path, called any number of times.          *)
(***************************************************************************)
add_comfyui_directory_to_sys_path(path_list) ==
    LET comfyui_path == find_path("ComfyUI", cwd) IN
    IF comfyui_path.found /\ isdir(comfyui_path.path)
    THEN Append(path_list, comfyui_path.path)
    ELSE path_list

InitPath ==
    /\ cwd \in WorkingDirs(MaxDepth)
    /\ fs \in FileSystemsAt(cwd)
    /\ sys_path = <<>>
    /\ calls = 0
    /\ GVIdle
    /\ FPIdle
    /\ RunIdle

CallAddComfyUIDirectory ==
    /\ calls < MaxCalls
    /\ sys_path' = add_comfyui_directory_to_sys_path(sys_path)
    /\ calls' = calls + 1
    /\ UNCHANGED <<fs_vars, gv_vars, fp_vars, run_vars>>

NextPath == CallAddComfyUIDirectory

SpecPath == InitPath /\ [][NextPath]_vars

\* C8: after one or more calls of add_comfyui_directory_to_sys_path,
\* sys.path is what it was after the first call: the ComfyUI directory is in
\* it at most once.
C8_PathExtensionIdempotent ==
    calls >= 1 =>
        /\ sys_path = add_comfyui_directory_to_sys_path(<<>>)
        /\ \A i, j \in 1..Len(sys_path) : sys_path[i] = sys_path[j] => i = j

(***************************************************************************)
(* Calls of get_value_at_index on every modelled collection and index.     *)
(***************************************************************************)
InitGV ==
    /\ gv_obj \in OutputCollections
    /\ gv_index \in Indices
    /\ gv_result = PyNone
    /\ gv_pc = "call"
    /\ cwd = <<>>
    /\ fs = EmptyFileSystem
    /\ sys_path = <<>>
    /\ calls = 0
    /\ FPIdle
    /\ RunIdle

CallGetValueAtIndex ==
    /\ gv_pc = "call"
    /\ gv_result' = get_value_at_index(gv_obj, gv_index)
    /\ gv_pc' = "done"
    /\ UNCHANGED <<gv_obj, gv_index, fs_vars, path_vars, fp_vars, run_vars>>

NextGV == CallGetValueAtIndex

SpecGV == InitGV /\ [][NextGV]_vars

(***************************************************************************)
(* What the addressing rule is expected to read, stated on the structure   *)
(* of the collection.                                                      *)
(***************************************************************************)
IsSeq(c) == c.kind = "seq"
IsMap(c) == c.kind = "map"

\* c has something at position i: an in-range sequence position, or the
\* integer i as a key of a mapping.
ReadableAt(c, i) ==
    \/ IsSeq(c) /\ -Len(c.items) <= i /\ i < Len(c.items)
    \/ IsMap(c) /\ \E j \in 1..Len(c.pairs) : c.pairs[j].key = IntKey(i)

EntryAt(c, i) ==
    IF IsSeq(c)
    THEN c.items[IF i >= 0 THEN i + 1 ELSE Len(c.items) + i + 1]
    ELSE c.pairs[CHOOSE j \in 1..Len(c.pairs) : c.pairs[j].key = IntKey(i)].val

HasResult(c) ==
    IsMap(c) /\ \E j \in 1..Len(c.pairs) : c.pairs[j].key = StrKey("result")
ResultOf(c) ==
    c.pairs[CHOOSE j \in 1..Len(c.pairs) : c.pairs[j].key = StrKey("result")].val

FallbackReadableAt(c, i) ==
    IsMap(c) /\ ~ReadableAt(c, i) /\ HasResult(c) /\ ReadableAt(ResultOf(c), i)

C9_IndexthKeyOfMapping ==
    (gv_pc = "done" /\ IsMap(gv_obj)
        /\ 0 <= gv_index /\ gv_index < Len(gv_obj.pairs))
        => gv_result = Ok(gv_obj.pairs[gv_index + 1].val)

(***************************************************************************)
(* The program: the statements executed when the file is run as a script,  *)
(* in program order.  Constructing a node object (CLIPTextEncode() and the *)
(* like) and printing change nothing that is modelled and are left out.    *)
(***************************************************************************)
Call(line, op) ==
    [kind |-> "call", line |-> line, target |-> "", op |-> op, args |-> <<>>]
Import(line, module) ==
    [kind |-> "import", line |-> line, target |-> "", op |-> module, args |-> <<>>]
Lookup(line, target, name) ==
    [kind |-> "lookup", line |-> line, target |-> target, op |-> name, args |-> <<>>]
Node(line, target, op, args) ==
    [kind |-> "node", line |-> line, target |-> target, op |-> op, args |-> args]

\* An input read as get_value_at_index(node, index), or as node[index].
Via(param, node, index) ==
    [param |-> param, node |-> node, index |-> index, via |-> "get_value_at_index"]
Subscript(param, node, index) ==
    [param |-> param, node |-> node, index |-> index, via |-> "subscript"]

\* A plausible slip: the configuration is looked for before the search
\* path is extended.
ModuleLevelExtraPathsFirst ==
    << Call(84, "add_extra_model_paths"),
       Call(83, "add_comfyui_directory_to_sys_path"),
       Import(110, "nodes") >>

\* Lines 83-123: the statements at module level.
ModuleLevel ==
    << Call(83, "add_comfyui_directory_to_sys_path"),
       Call(84, "add_extra_model_paths"),
       Import(110, "nodes") >>

\* Lines 127-192: main() up to the for statement.
MainPrologue ==
    << Call(127, "import_custom_nodes"),
       Node(130, "checkpointloadersimple_4", "CheckpointLoaderSimple.load_checkpoint", <<>>),
       Node(136, "cliptextencode_6", "CLIPTextEncode.encode",
            <<Via("clip", "checkpointloadersimple_4", 1)>>),
       Node(141, "cliptextencode_7", "CLIPTextEncode.encode",
            <<Via("clip", "checkpointloadersimple_4", 1)>>),
       Node(146, "loadimage_14", "LoadImage.load_image", <<>>),
       Node(151, "vaeloader_26", "VAELoader.load_vae", <<>>),
       Node(156, "vaeencode_15", "VAEEncode.encode",
            <<Via("pixels", "loadimage_14", 0), Via("vae", "vaeloader_26", 0)>>),
       Node(162, "controlnetloader_19", "ControlNetLoader.load_controlnet", <<>>),
       Node(166, "cliptextencode_21", "CLIPTextEncode.encode",
            <<Via("clip", "checkpointloadersimple_4", 1)>>),
       Node(171, "cliptextencode_24", "CLIPTextEncode.encode",
            <<Via("clip", "checkpointloadersimple_4", 1)>>),
       Node(176, "controlnetloader_29", "ControlNetLoader.load_controlnet", <<>>),
       Lookup(185, "aio_preprocessor", "AIO_Preprocessor"),
       Lookup(187, "bnk_unsampler", "BNK_Unsampler"),
       Lookup(191, "imageupscalewithmodel", "ImageUpscaleWithModel"),
       Lookup(192, "midas_depthmappreprocessor", "MiDaS-DepthMapPreprocessor") >>

\* A plausible slip: the sampler is written before the unsampler it reads.
LoopBodySamplerFirst ==
    << Node(195, "aio_preprocessor_44", "AIO_Preprocessor.execute",
            <<Via("image", "loadimage_14", 0)>>),
       Node(201, "controlnetapplyadvanced_25", "ControlNetApplyAdvanced.apply_controlnet",
            <<Via("positive", "cliptextencode_21", 0),
              Via("negative", "cliptextencode_24", 0),
              Via("control_net", "controlnetloader_19", 0),
              Via("image", "aio_preprocessor_44", 0)>>),
       Node(211, "aio_preprocessor_43", "AIO_Preprocessor.execute",
            <<Via("image", "loadimage_14", 0)>>),
       Node(217, "controlnetapplyadvanced_30", "ControlNetApplyAdvanced.apply_controlnet",
            <<Via("positive", "controlnetapplyadvanced_25", 0),
              Via("negative", "controlnetapplyadvanced_25", 1),
              Via("control_net", "controlnetloader_29", 0),
              Via("image", "aio_preprocessor_43", 0)>>),
       Node(240, "ksampleradvanced_16", "KSamplerAdvanced.sample",
            <<Via("model", "checkpointloadersimple_4", 0),
              Via("positive", "controlnetapplyadvanced_30", 0),
              Via("negative", "controlnetapplyadvanced_30", 1),
              Via("latent_image", "bnk_unsampler_13", 0)>>),
       Node(227, "bnk_unsampler_13", "BNK_Unsampler.unsampler",
            <<Via("model", "checkpointloadersimple_4", 0),
              Via("positive", "cliptextencode_6", 0),
              Via("negative", "cliptextencode_7", 0),
              Via("latent_image", "vaeencode_15", 0)>>),
       Node(256, "vaedecode_8", "VAEDecode.decode",
            <<Via("samples", "ksampleradvanced_16", 0),
              Via("vae", "vaeloader_26", 0)>>),
       Node(266, "midas_depthmappreprocessor_50", "MiDaS-DepthMapPreprocessor.execute",
            <<Via("image", "loadimage_14", 0)>>),
       Node(274, "finale", "SaveImage.save_images",
            <<Subscript("images", "vaedecode_8", 0)>>) >>

\* Lines 195-276: the body of the for statement.
LoopBody ==
    << Node(195, "aio_preprocessor_44", "AIO_Preprocessor.execute",
            <<Via("image", "loadimage_14", 0)>>),
       Node(201, "controlnetapplyadvanced_25", "ControlNetApplyAdvanced.apply_controlnet",
            <<Via("positive", "cliptextencode_21", 0),
              Via("negative", "cliptextencode_24", 0),
              Via("control_net", "controlnetloader_19", 0),
              Via("image", "aio_preprocessor_44", 0)>>),
       Node(211, "aio_preprocessor_43", "AIO_Preprocessor.execute",
            <<Via("image", "loadimage_14", 0)>>),
       Node(217, "controlnetapplyadvanced_30", "ControlNetApplyAdvanced.apply_controlnet",
            <<Via("positive", "controlnetapplyadvanced_25", 0),
              Via("negative", "controlnetapplyadvanced_25", 1),
              Via("control_net", "controlnetloader_29", 0),
              Via("image", "aio_preprocessor_43", 0)>>),
       Node(227, "bnk_unsampler_13", "BNK_Unsampler.unsampler",
            <<Via("model", "checkpointloadersimple_4", 0),
              Via("positive", "cliptextencode_6", 0),
              Via("negative", "cliptextencode_7", 0),
              Via("latent_image", "vaeencode_15", 0)>>),
       Node(240, "ksampleradvanced_16", "KSamplerAdvanced.sample",
            <<Via("model", "checkpointloadersimple_4", 0),
              Via("positive", "controlnetapplyadvanced_30", 0),
              Via("negative", "controlnetapplyadvanced_30", 1),
              Via("latent_image", "bnk_unsampler_13", 0)>>),
       Node(256, "vaedecode_8", "VAEDecode.decode",
            <<Via("samples", "ksampleradvanced_16", 0),
              Via("vae", "vaeloader_26", 0)>>),
       Node(266, "midas_depthmappreprocessor_50", "MiDaS-DepthMapPreprocessor.execute",
            <<Via("image", "loadimage_14", 0)>>),
       Node(274, "finale", "SaveImage.save_images",
            <<Subscript("images", "vaedecode_8", 0)>>) >>

Program == ModuleLevel \o MainPrologue \o LoopBody

\* The first statement of the loop body.
LoopStart == Len(ModuleLevel) + Len(MainPrologue) + 1

\* A plausible slip: range(2), the body runs again.
LoopIterationsTwo == 1 + 1

\* for q in range(1)
LoopIterations == 1

NodeStatements == {k \in 1..Len(Program) : Program[k].kind = "node"}
Nodes == {Program[k].target : k \in NodeStatements}

\* The names import_custom_nodes may add to NODE_CLASS_MAPPINGS, and those
\* "from nodes import" brings with it.
CustomNodes ==
    {"AIO_Preprocessor", "BNK_Unsampler", "ImageUpscaleWithModel",
     "MiDaS-DepthMapPreprocessor"}
BuiltinNodes ==
    {"VAEEncode", "ControlNetLoader", "KSamplerAdvanced", "VAELoader",
     "ControlNetApplyAdvanced", "VAEDecode", "LoadImage", "CLIPTextEncode",
     "CheckpointLoaderSimple", "PreviewImage", "SaveImage"}

(***************************************************************************)
(* What a node operation returns.  The operations are external: a node     *)
(* returns as many outputs as the program reads of it (one at least), as a *)
(* plain sequence or inside a {"ui": ..., "result": (...)} envelope.       *)
(***************************************************************************)
Shapes == {"sequence", "envelope"}

AllReads ==
    UNION {{Program[k].args[i] : i \in 1..Len(Program[k].args)} : k \in NodeStatements}

NumOutputs(node) ==
    LET read == {a.index : a \in {r \in AllReads : r.node = node}} IN
    IF read = {} THEN 1
    ELSE 1 + (CHOOSE m \in read : \A n \in read : n <= m)

OutputValue(node, i) == Scalar(node \o "[" \o ToString(i) \o "]")

Output(node, shape) ==
    LET items == [i \in 1..NumOutputs(node) |-> OutputValue(node, i - 1)] IN
    IF shape = "sequence" THEN PySeq(items)
    ELSE PyMap(<< [key |-> StrKey("ui"), val |-> Scalar(node \o ".ui")],
                  [key |-> StrKey("result"), val |-> PySeq(items)] >>)

Envelopes(c) == Cardinality({n \in DOMAIN c : c[n].kind = "map"})

\* Assigning the variable: a first binding, or a rebinding.
Store(c, node, out) ==
    [n \in DOMAIN c \cup {node} |-> IF n = node THEN out ELSE c[n]]

(***************************************************************************)
(* Executing one statement.                                                *)
(***************************************************************************)
\* One keyword argument of a node call, evaluated.
Resolve(arg) ==
    IF arg.node \notin DOMAIN cache THEN Raise("UnboundLocalError")
    ELSE IF arg.via = "get_value_at_index"
         THEN get_value_at_index(cache[arg.node], arg.index)
         ELSE PyGetItem(cache[arg.node], IntKey(arg.index))

AllResolve(args) == \A i \in 1..Len(args) : Resolve(args[i]).status = "ok"

\* Arguments are evaluated left to right: the first failure is what is raised.
FirstFailure(args) ==
    Resolve(args[CHOOSE i \in 1..Len(args) :
                    /\ Resolve(args[i]).status # "ok"
                    /\ \A j \in 1..(i - 1) : Resolve(args[j]).status = "ok"]).status

\* Where control goes after statement k in iteration iter of the loop.
NextStatement(k, iter) ==
    IF k < Len(Program) THEN [pc |-> k + 1, q |-> iter, status |-> "running"]
    ELSE IF iter + 1 < LoopIterations
         THEN [pc |-> LoopStart, q |-> iter + 1, status |-> "running"]
         ELSE [pc |-> k + 1, q |-> iter, status |-> "done"]

Advance ==
    /\ pc' = NextStatement(pc, q).pc
    /\ q' = NextStatement(pc, q).q
    /\ status' = NextStatement(pc, q).status
    /\ error' = error

\* No statement of the program catches an exception: it ends the run.
Abort(e) ==
    /\ status' = "failed"
    /\ error' = e
    /\ UNCHANGED <<pc, q>>

At(kind) == status = "running" /\ pc \in 1..Len(Program) /\ Program[pc].kind = kind

Executed(entry) == log' = Append(log, entry)

\* Line 83.
RunAddComfyUIDirectory ==
    /\ At("call") /\ Program[pc].op = "add_comfyui_directory_to_sys_path"
    /\ sys_path' = add_comfyui_directory_to_sys_path(sys_path)
    /\ calls' = calls + 1
    /\ Executed([kind |-> "call", name |-> Program[pc].op])
    /\ Advance
    /\ UNCHANGED <<fs_vars, gv_vars, fp_vars, extra_config, registry, cache, saved>>

\* Line 84: add_extra_model_paths.
RunAddExtraModelPaths ==
    /\ At("call") /\ Program[pc].op = "add_extra_model_paths"
    /\ LET extra_model_paths == find_path("extra_model_paths.yaml", cwd) IN
       extra_config' = IF extra_model_paths.found THEN extra_model_paths
                       ELSE extra_config
    /\ Executed([kind |-> "call", name |-> Program[pc].op])
    /\ Advance
    /\ UNCHANGED <<fs_vars, gv_vars, fp_vars, path_vars, registry, cache, saved>>

\* Lines 110-123: from nodes import NODE_CLASS_MAPPINGS, ...
RunImportNodes ==
    /\ At("import")
    /\ registry' = registry \cup BuiltinNodes
    /\ Executed([kind |-> "import", name |-> Program[pc].op])
    /\ Advance
    /\ UNCHANGED <<fs_vars, gv_vars, fp_vars, path_vars, extra_config, cache, saved>>

\* Line 127: import_custom_nodes registers the custom nodes that are installed.
RunImportCustomNodes ==
    /\ At("call") /\ Program[pc].op = "import_custom_nodes"
    /\ \E installed \in SUBSET CustomNodes : registry' = registry \cup installed
    /\ Executed([kind |-> "call", name |-> Program[pc].op])
    /\ Advance
    /\ UNCHANGED <<fs_vars, gv_vars, fp_vars, path_vars, extra_config, cache, saved>>

\* Lines 185-192: NODE_CLASS_MAPPINGS[name]()
LookupNodeClass ==
    /\ At("lookup")
    /\ Program[pc].op \in registry
    /\ Executed([kind |-> "lookup", name |-> Program[pc].op])
    /\ Advance
    /\ UNCHANGED <<fs_vars, gv_vars, fp_vars, path_vars, extra_config, registry, cache, saved>>

LookupNodeClassFails ==
    /\ At("lookup")
    /\ Program[pc].op \notin registry
    /\ Executed([kind |-> "lookup", name |-> Program[pc].op])
    /\ Abort("KeyError")
    /\ UNCHANGED <<fs_vars, gv_vars, fp_vars, path_vars, extra_config, registry, cache, saved>>

\* A node statement whose arguments resolve and whose operation returns.
InvokeNode ==
    /\ At("node")
    /\ AllResolve(Program[pc].args)
    /\ \E shape \in Shapes :
          /\ shape = "envelope" => Envelopes(cache) < MaxEnvelopes
          /\ cache' = Store(cache, Program[pc].target, Output(Program[pc].target, shape))
    /\ saved' = IF Program[pc].op = "SaveImage.save_images"
                THEN Append(saved, Resolve(Program[pc].args[1]).value)
                ELSE saved
    /\ Executed([kind |-> "invoke", name |-> Program[pc].target])
    /\ Advance
    /\ UNCHANGED <<fs_vars, gv_vars, fp_vars, path_vars, extra_config, registry>>

\* A plausible slip: the exception of the operation is caught and the run
\* goes on to the next statement.
InvokeNodeRaisesAndGoesOn ==
    /\ At("node")
    /\ AllResolve(Program[pc].args)
    /\ log' = log \o << [kind |-> "invoke", name |-> Program[pc].target],
                        [kind |-> "raise", name |-> Program[pc].target] >>
    /\ Advance
    /\ UNCHANGED <<fs_vars, gv_vars, fp_vars, path_vars, extra_config, registry,
                   cache, saved>>

\* A node statement whose operation raises.
InvokeNodeRaises ==
    /\ At("node")
    /\ AllResolve(Program[pc].args)
    /\ log' = log \o << [kind |-> "invoke", name |-> Program[pc].target],
                        [kind |-> "raise", name |-> Program[pc].target] >>
    /\ Abort("NodeError")
    /\ UNCHANGED <<fs_vars, gv_vars, fp_vars, path_vars, extra_config, registry,
                   cache, saved>>

\* A node statement one of whose arguments cannot be read: the operation
\* is not invoked.
ResolveInputFails ==
    /\ At("node")
    /\ ~AllResolve(Program[pc].args)
    /\ Abort(FirstFailure(Program[pc].args))
    /\ UNCHANGED <<fs_vars, gv_vars, fp_vars, path_vars, extra_config, registry,
                   cache, saved, log>>

\* The script is run from a working directory; nothing has executed yet.
Init ==
    /\ cwd \in WorkingDirs(0)
    /\ fs \in FileSystemsAt(cwd)
    /\ sys_path = <<>>
    /\ calls = 0
    /\ GVIdle
    /\ FPIdle
    /\ pc = 1
    /\ q = 0
    /\ status = "running"
    /\ error = ""
    /\ extra_config = NoPath
    /\ registry = {}
    /\ cache = <<>>
    /\ log = <<>>
    /\ saved = <<>>

Next ==
    \/ RunAddComfyUIDirectory
    \/ RunAddExtraModelPaths
    \/ RunImportNodes
    \/ RunImportCustomNodes
    \/ LookupNodeClass
    \/ LookupNodeClassFails
    \/ InvokeNode
    \/ InvokeNodeRaises
    \/ ResolveInputFails

Spec == Init /\ [][Next]_vars

(***************************************************************************)
(* Properties of a run.                                                    *)
(***************************************************************************)
\* How many times the operation of a node has been invoked.
Invocations(node) ==
    Cardinality({i \in 1..Len(log) : log[i] = [kind |-> "invoke", name |-> node]})

Happened(entry) == \E i \in 1..Len(log) : log[i] = entry
HappenedBefore(entry, i) == \E j \in 1..(i - 1) : log[j] = entry

StatementOf(node) == CHOOSE k \in NodeStatements : Program[k].target = node
Producers(k) == {Program[k].args[i].node : i \in 1..Len(Program[k].args)}

\* C3: in a run every node is invoked at most once, a stored output is
\* never overwritten, and a finished run has invoked every node exactly once
\* and holds one stored output per node.
C3_EachNodeOnce ==
    /\ [](/\ \A n \in Nodes : Invocations(n) <= 1
          /\ status = "done" =>
                /\ \A n \in Nodes : Invocations(n) = 1
                /\ DOMAIN cache = Nodes)
    /\ [][\A n \in DOMAIN cache : n \in DOMAIN cache' /\ cache'[n] = cache[n]]_vars

\* A finished run: the checkpoint loader, read six times, and the first
\* ControlNet stage, read at outputs 0 and 1, were invoked once each.
C3_Witness ==
    /\ status = "done"
    /\ Invocations("checkpointloadersimple_4") = 1
    /\ Invocations("controlnetapplyadvanced_25") = 1
    /\ Cardinality(DOMAIN cache) = Cardinality(Nodes)
    /\ Cardinality({r \in AllReads : r.node = "checkpointloadersimple_4"}) > 1

\* C4: when a node statement is executed, every node it reads has been
\* invoked and has its output stored; and in the order of invocations every
\* producer comes before its consumer.
C4_ProducersFirst ==
    /\ [][At("node") =>
            \A a \in Producers(pc) : a \in DOMAIN cache /\ Invocations(a) >= 1]_vars
    /\ [](\A i \in 1..Len(log) : log[i].kind = "invoke" =>
            \A a \in Producers(StatementOf(log[i].name)) :
                HappenedBefore([kind |-> "invoke", name |-> a], i))

\* The sampler has been invoked, after the three nodes it reads.
C4_Witness ==
    /\ Invocations("ksampleradvanced_16") = 1
    /\ Producers(StatementOf("ksampleradvanced_16")) \subseteq DOMAIN cache
    /\ Cardinality(Producers(StatementOf("ksampleradvanced_16"))) = 3

\* C5: once the operation of a node has raised, the run is failed and
\* stays as it is: the raise is the last thing that happened, the node was
\* invoked once, no later node was invoked, and no image was saved.
C5_AbortOnRaise ==
    /\ [](\A i \in 1..Len(log) : log[i].kind = "raise" =>
            /\ status = "failed" /\ error = "NodeError"
            /\ i = Len(log)
            /\ Program[pc].target = log[i].name
            /\ Invocations(log[i].name) = 1
            /\ \A k \in NodeStatements : k > pc => Invocations(Program[k].target) = 0
            /\ saved = <<>>)
    /\ [][status = "failed" => UNCHANGED vars]_vars

\* The sampler raised: the run is failed, Decode and Save were not invoked.
C5_Witness ==
    /\ status = "failed"
    /\ Happened([kind |-> "raise", name |-> "ksampleradvanced_16"])
    /\ Invocations("vaedecode_8") = 0
    /\ Invocations("finale") = 0
    /\ saved = <<>>

\* C6: the images input of Save is resolved by the rule of
\* get_value_at_index whatever shape Decode returned: a run stops at the
\* Save statement only when save_images itself raises, and a finished run
\* has written output 0 of Decode, once.
C6_SaveInputResolvedByRule ==
    /\ (status = "failed" /\ pc = StatementOf("finale")) => error = "NodeError"
    /\ status = "done" => saved = <<OutputValue("vaedecode_8", 0)>>

\* C7: add_comfyui_directory_to_sys_path has run before add_extra_model_paths
\* runs (and loads a configuration) and before the node implementations are
\* imported; import_custom_nodes has run before any NODE_CLASS_MAPPINGS
\* lookup and before any node operation is invoked.
C7_BootstrapOrder ==
    \A i \in 1..Len(log) :
        /\ (log[i] = [kind |-> "call", name |-> "add_extra_model_paths"]
               \/ log[i].kind = "import")
              => HappenedBefore([kind |-> "call",
                                 name |-> "add_comfyui_directory_to_sys_path"], i)
        /\ log[i].kind \in {"lookup", "invoke"}
              => HappenedBefore([kind |-> "call", name |-> "import_custom_nodes"], i)
        /\ (extra_config.found \/ registry # {})
              => Happened([kind |-> "call", name |-> "add_comfyui_directory_to_sys_path"])

\* The configuration file was loaded, a custom node class was looked up and
\* a node was invoked, all after the bootstrap.
C7_Witness ==
    /\ extra_config.found
    /\ sys_path # <<>>
    /\ Happened([kind |-> "lookup", name |-> "AIO_Preprocessor"])
    /\ Happened([kind |-> "invoke", name |-> "aio_preprocessor_44"])

====
